---- MODULE Spec2Model ----
(***************************************************************************)
(* Staking ledger and pool registry of the backend (poolController.ts,     *)
(* stakingController.ts, models/pool.ts, models/transaction.ts).           *)
(*                                                                         *)
(* Every express handler is an async function: the code between two        *)
(* awaits runs without interruption, every awaited database call is one    *)
(* atomic step of the database.  A handler is therefore a little process   *)
(* whose steps are "one database call, then the synchronous code up to     *)
(* the next await".  The documents a handler has loaded are private        *)
(* copies; pool.save() writes back only the paths the handler assigned.    *)
(*                                                                         *)
(* Amounts are counted in tenths of a token (0.1 token = 1), times in      *)
(* milliseconds.                                                           *)
(***************************************************************************)
EXTENDS Integers, Sequences, FiniteSets, TLC

\* ---------------------------------------------------------------- bounds
MaxReqs   == 2      \* request handlers that may be in flight together
MaxPools  == 1      \* pools ever created
MaxLedger == 3      \* transaction documents ever saved
MaxAmount == 2      \* largest amount a request carries
MaxTicks  == 2      \* the clock stops after this many days

\* ------------------------------------------------------ program constants
MsPerDay        == 86400000
DefaultMinStake == 1
DefaultLockPeriod == 0
DaysPerYear     == 365

Reqs    == 1..MaxReqs
PoolIds == 1..MaxPools
Amounts == 0..MaxAmount
Registered == {"u1", "u2"}
UserIds == Registered \cup {"u0"}
Admin   == "admin"
TxIds   == 1..MaxLedger
NoId    == 0
NoTime  == -1
Absent  == -1
Infinity == 1000000     \* JSON 1e999: above every amount of the model
BodyAmounts == {-1} \cup Amounts \cup {Infinity}
BodyPoolIds == {"", "p"}
Names       == {"", "P"}
Types       == {"", "lock"}
Apys        == {5}
MinStakes   == {2}
LockPeriods == {0, 1}

Null == [null |-> TRUE]
Max(a, b) == IF a >= b THEN a ELSE b

VARIABLES
    pools,      \* the Pool collection: pool id -> document
    nextPoolId, \* ids are never reused
    ledger,     \* the Transaction collection, in order of insertion
    nextTxId,   \* uuidv4(): a fresh id per constructed transaction
    now,        \* Date.now()
    req,        \* per handler: position and local variables
    resp        \* the response the last step sent, if it sent one

vars == <<pools, nextPoolId, ledger, nextTxId, now, req, resp>>

\* --------------------------------------------------------------- documents
NewPool(name, type, apy, minStake, lockPeriod) ==
    [name |-> name, type |-> type, apy |-> apy,
     minStake    |-> IF minStake = 0 THEN DefaultMinStake ELSE minStake,
     lockPeriod  |-> IF lockPeriod = 0 THEN DefaultLockPeriod ELSE lockPeriod,
     liquidity   |-> 0,
     totalStaked |-> 0]

\* variant: every event gets the same transactionId instead of a fresh one
NewTransactionIdReused(id, orig, type, amount, ts, userId, poolId, unlockTime) ==
    [transactionId |-> 1, originalTransactionId |-> orig, type |-> type,
     amount |-> amount, timestamp |-> ts, userId |-> userId,
     poolId |-> poolId, unlockTime |-> unlockTime]

\* variant: the reference to the stake is not stored
NewTransactionNoOriginal(id, orig, type, amount, ts, userId, poolId, unlockTime) ==
    [transactionId |-> id, originalTransactionId |-> NoId, type |-> type,
     amount |-> amount, timestamp |-> ts, userId |-> userId,
     poolId |-> poolId, unlockTime |-> unlockTime]

NewTransaction(id, orig, type, amount, ts, userId, poolId, unlockTime) ==
    [transactionId |-> id, originalTransactionId |-> orig, type |-> type,
     amount |-> amount, timestamp |-> ts, userId |-> userId,
     poolId |-> poolId, unlockTime |-> unlockTime]

IdleReq == [pc |-> "idle"]
NoResp  == [by |-> 0, op |-> "none", status |-> "none", args |-> Null]

Init ==
    /\ pools = <<>>
    /\ nextPoolId = 1
    /\ ledger = <<>>
    /\ nextTxId = 1
    /\ now = 0
    /\ req = [r \in Reqs |-> IdleReq]
    /\ resp = NoResp

\* ------------------------------------------------------------- queries
First(S) == IF S = {} THEN Null ELSE ledger[CHOOSE i \in S : \A j \in S : i <= j]

\* variant: the stake looked up without its owner
FindStakeAnyOwner(transactionId, userId) ==
    First({i \in 1..Len(ledger) :
            LET t == ledger[i] IN /\ t.transactionId = transactionId
                                  /\ t.type = "stake"})

\* Transaction.findOne({ transactionId, type: 'stake', userId })
FindStake(transactionId, userId) ==
    First({i \in 1..Len(ledger) :
            LET t == ledger[i] IN /\ t.transactionId = transactionId
                                  /\ t.type = "stake"
                                  /\ t.userId = userId})

\* variant: the lookup keyed on transactionId instead of originalTransactionId
FindUnstakeByOwnId(transactionId, userId) ==
    First({i \in 1..Len(ledger) :
            LET t == ledger[i] IN /\ t.transactionId = transactionId
                                  /\ t.type = "unstake"
                                  /\ t.userId = userId})

\* Transaction.findOne({ originalTransactionId, type: 'unstake', userId })
FindUnstake(transactionId, userId) ==
    First({i \in 1..Len(ledger) :
            LET t == ledger[i] IN /\ t.originalTransactionId = transactionId
                                  /\ t.type = "unstake"
                                  /\ t.userId = userId})

\* Pool.findById(poolId)
FindPool(poolId) == IF poolId \in DOMAIN pools THEN pools[poolId] ELSE Null

\* User.findById(userId)
FindUser(userId) == IF userId \in Registered THEN [userId |-> userId] ELSE Null

\* ------------------------------------------------- the handlers' conditions
\* !amount || isNaN(amount) || amount <= 0
InvalidStakeAmount(amount) == amount = 0 \/ amount <= 0

\* isNaN(amount) || amount <= 0
InvalidAmount(amount) == amount <= 0

\* variant: the comparison off by one
BelowMinimumOffByOne(amount, pool) == amount + 1 < pool.minStake

\* amount < pool.minStake
BelowMinimum(amount, pool) == amount < pool.minStake

\* variant: the unlock time set whatever the lock period
UnlockTimeAlways(pool, t) == t + pool.lockPeriod * MsPerDay

\* pool.lockPeriod ? new Date(Date.now() + pool.lockPeriod * 86400000) : null
UnlockTime(pool, t) ==
    IF pool.lockPeriod # 0 THEN t + pool.lockPeriod * MsPerDay ELSE NoTime

\* variant: <= for <
StillLockedAtUnlockTime(stakeTransaction, t) ==
    stakeTransaction.unlockTime # NoTime /\ t <= stakeTransaction.unlockTime

\* stakeTransaction.unlockTime && new Date() < stakeTransaction.unlockTime
StillLocked(stakeTransaction, t) ==
    stakeTransaction.unlockTime # NoTime /\ t < stakeTransaction.unlockTime

\* variant: the amount assigned instead of added
StakedAfterStakeOverwrite(totalStaked, amount) == amount

\* pool.totalStaked = (pool.totalStaked || 0) + amount
StakedAfterStake(totalStaked, amount) == totalStaked + amount

\* variant: the subtraction without the floor
StakedAfterUnstakeUnfloored(totalStaked, amount) == totalStaked - amount

\* pool.totalStaked = Math.max(0, (pool.totalStaked || 0) - amount)
StakedAfterUnstake(totalStaked, amount) == Max(0, totalStaked - amount)

\* variant: a withdrawal of the whole liquidity refused
InsufficientLiquidityAtEqual(pool, amount) == pool.liquidity <= amount

\* variant: the comparison off by one
InsufficientLiquidityOffByOne(pool, amount) == pool.liquidity + 1 < amount

\* pool.liquidity < amount
InsufficientLiquidity(pool, amount) == pool.liquidity < amount

\* ------------------------------------------------------- handler plumbing
InFlight == {q \in Reqs : req[q].pc # "idle"}

\* a new request is served by the first free handler
Free(r) == req[r].pc = "idle" /\ \A q \in Reqs : q < r => req[q].pc # "idle"

\* room for one more transaction document per handler in flight
Room == Len(ledger) + Cardinality(InFlight) < MaxLedger

\* res.status(..).json(..): the handler returns; args are the request's inputs
Respond(r, op, status, args) ==
    /\ req' = [req EXCEPT ![r] = IdleReq]
    /\ resp' = [by |-> r, op |-> op, status |-> status, args |-> args]

Goto(r, locals) ==
    /\ req' = [req EXCEPT ![r] = locals]
    /\ resp' = NoResp

\* pool.save(): an update of the paths the handler assigned, on the stored
\* document; the document being gone is a DocumentNotFoundError
\* the inputs of the request a handler in flight is serving
Args(r) == [f \in DOMAIN req[r] \ {"pc", "loaded", "pool", "transaction", "stakeTransaction"}
                |-> req[r][f]]

\* variant: save() writes the whole document back
ModifiedAll(loaded, assigned) == DOMAIN loaded

Modified(loaded, assigned) ==
    {f \in DOMAIN loaded : loaded[f] # assigned[f]}

\* variant: the update sent without the document's _id, so that it lands on
\* the first pool of the collection
PoolSaveUnfiltered(r, op) ==
    LET p == CHOOSE q \in DOMAIN pools : \A o \in DOMAIN pools : q <= o
        dirty == Modified(req[r].loaded, req[r].pool)
    IN IF req[r].poolId \notin DOMAIN pools
       THEN /\ Respond(r, op, "server_error", Args(r))
            /\ UNCHANGED pools
       ELSE /\ pools' = [pools EXCEPT ![p] =
                    [f \in DOMAIN pools[p] |->
                        IF f \in dirty THEN req[r].pool[f] ELSE pools[p][f]]]
            /\ Respond(r, op, "ok", Args(r))

PoolSave(r, op) ==
    LET p == req[r].poolId
        dirty == Modified(req[r].loaded, req[r].pool)
    IN IF p \notin DOMAIN pools
       THEN /\ Respond(r, op, "server_error", Args(r))
            /\ UNCHANGED pools
       ELSE /\ pools' = [pools EXCEPT ![p] =
                    [f \in DOMAIN pools[p] |->
                        IF f \in dirty THEN req[r].pool[f] ELSE pools[p][f]]]
            /\ Respond(r, op, "ok", Args(r))

\* ------------------------------------------------------------ stakeTokens
\* variant: the amount not validated by the route
IsNumericAny(amount) == TRUE

\* body('amount').isNumeric(): the value as a string is an optional sign and
\* decimal digits; String(Infinity) is "Infinity"
IsNumeric(amount) == amount # Infinity

StakeBegin(r, userId, poolId, amount) ==
    /\ Free(r)
    /\ Room
    /\ LET pool == FindPool(poolId)
           args == [userId |-> userId, poolId |-> poolId, amount |-> amount] IN
       IF InvalidStakeAmount(amount) THEN Respond(r, "stake", "invalid_amount", args)
       ELSE IF pool = Null THEN Respond(r, "stake", "pool_not_found", args)
       ELSE IF BelowMinimum(amount, pool) THEN Respond(r, "stake", "below_minimum", args)
       ELSE Goto(r, [pc |-> "stake_findUser", userId |-> userId, poolId |-> poolId,
                     amount |-> amount, loaded |-> pool, pool |-> pool])
    /\ UNCHANGED <<pools, nextPoolId, ledger, nextTxId, now>>

StakeFindUser(r) ==
    /\ req[r].pc = "stake_findUser"
    /\ IF FindUser(req[r].userId) = Null
       THEN /\ Respond(r, "stake", "user_not_found", Args(r))
            /\ UNCHANGED nextTxId
       ELSE /\ Goto(r, [req[r] EXCEPT !.pc = "stake_saveTx"] @@
                       [transaction |-> NewTransaction(nextTxId, NoId, "stake",
                            req[r].amount, now, req[r].userId, req[r].poolId,
                            UnlockTime(req[r].pool, now))])
            /\ nextTxId' = nextTxId + 1
    /\ UNCHANGED <<pools, nextPoolId, ledger, now>>

StakeSaveTx(r) ==
    /\ req[r].pc = "stake_saveTx"
    /\ ledger' = Append(ledger, req[r].transaction)
    /\ Goto(r, [req[r] EXCEPT !.pc = "stake_savePool",
                   !.pool.totalStaked = StakedAfterStake(@, req[r].amount)])
    /\ UNCHANGED <<pools, nextPoolId, nextTxId, now>>

StakeSavePool(r) ==
    /\ req[r].pc = "stake_savePool"
    /\ PoolSave(r, "stake")
    /\ UNCHANGED <<nextPoolId, ledger, nextTxId, now>>

\* router.post('/stake/:poolId', validateStaking, checkValidationResults,
\* stakeTokens): the request body must hold a numeric amount and a poolId
StakeRoute(r, userId, poolId, bodyPoolId, amount) ==
    IF ~IsNumeric(amount) \/ bodyPoolId = ""
    THEN /\ Free(r)
         /\ Respond(r, "stake", "validation_errors",
                    [userId |-> userId, poolId |-> poolId, amount |-> amount])
         /\ UNCHANGED <<pools, nextPoolId, ledger, nextTxId, now>>
    ELSE StakeBegin(r, userId, poolId, amount)

\* ---------------------------------------------------------- unstakeTokens
UnstakeBegin(r, userId, transactionId) ==
    /\ Free(r)
    /\ Room
    /\ LET stakeTransaction == FindStake(transactionId, userId)
           args == [userId |-> userId, transactionId |-> transactionId] IN
       IF stakeTransaction = Null THEN Respond(r, "unstake", "stake_not_found", args)
       ELSE Goto(r, [pc |-> "unstake_findUnstake", userId |-> userId,
                     transactionId |-> transactionId,
                     stakeTransaction |-> stakeTransaction])
    /\ UNCHANGED <<pools, nextPoolId, ledger, nextTxId, now>>

UnstakeCheck(r) ==
    /\ req[r].pc = "unstake_findUnstake"
    /\ IF FindUnstake(req[r].transactionId, req[r].userId) # Null
       THEN Respond(r, "unstake", "already_unstaked", Args(r))
       ELSE IF StillLocked(req[r].stakeTransaction, now)
       THEN Respond(r, "unstake", "still_locked", Args(r))
       ELSE Goto(r, [req[r] EXCEPT !.pc = "unstake_findPool"])
    /\ UNCHANGED <<pools, nextPoolId, ledger, nextTxId, now>>

UnstakeFindPool(r) ==
    /\ req[r].pc = "unstake_findPool"
    /\ LET st == req[r].stakeTransaction
           pool == FindPool(st.poolId) IN
       IF pool = Null
       THEN /\ Respond(r, "unstake", "pool_not_found", Args(r))
            /\ UNCHANGED nextTxId
       ELSE /\ Goto(r, [req[r] EXCEPT !.pc = "unstake_saveTx"] @@
                       [poolId |-> st.poolId, loaded |-> pool, pool |-> pool,
                        transaction |-> NewTransaction(nextTxId, req[r].transactionId,
                            "unstake", st.amount, now, req[r].userId, st.poolId, NoTime)])
            /\ nextTxId' = nextTxId + 1
    /\ UNCHANGED <<pools, nextPoolId, ledger, now>>

UnstakeSaveTx(r) ==
    /\ req[r].pc = "unstake_saveTx"
    /\ ledger' = Append(ledger, req[r].transaction)
    /\ Goto(r, [req[r] EXCEPT !.pc = "unstake_savePool",
                   !.pool.totalStaked =
                       StakedAfterUnstake(@, req[r].stakeTransaction.amount)])
    /\ UNCHANGED <<pools, nextPoolId, nextTxId, now>>

UnstakeSavePool(r) ==
    /\ req[r].pc = "unstake_savePool"
    /\ PoolSave(r, "unstake")
    /\ UNCHANGED <<nextPoolId, ledger, nextTxId, now>>

\* ------------------------------------------------------------- createPool
\* a missing name or type is "", a missing apy is Absent; !apy holds of a
\* missing apy and of 0; a missing (or falsy) minStake or lockPeriod is 0
CreatePool(r, name, type, apy, minStake, lockPeriod) ==
    /\ Free(r)
    /\ nextPoolId <= MaxPools
    /\ LET args == [name |-> name, type |-> type, apy |-> apy,
                    minStake |-> minStake, lockPeriod |-> lockPeriod] IN
       IF name = "" \/ type = "" \/ apy \in {Absent, 0}
       THEN /\ Respond(r, "createPool", "missing_fields", args)
            /\ UNCHANGED <<pools, nextPoolId>>
       ELSE /\ pools' = (nextPoolId :> NewPool(name, type, apy, minStake, lockPeriod))
                            @@ pools
            /\ nextPoolId' = nextPoolId + 1
            /\ Respond(r, "createPool", "ok", args)
    /\ UNCHANGED <<ledger, nextTxId, now>>

\* ---------------------------------------------------------- depositToPool
DepositBegin(r, poolId, amount) ==
    /\ Free(r)
    /\ Room
    /\ LET pool == FindPool(poolId)
           args == [poolId |-> poolId, amount |-> amount] IN
       IF InvalidAmount(amount)
       THEN /\ Respond(r, "deposit", "invalid_amount", args)
            /\ UNCHANGED nextTxId
       ELSE IF pool = Null
       THEN /\ Respond(r, "deposit", "pool_not_found", args)
            /\ UNCHANGED nextTxId
       ELSE /\ Goto(r, [pc |-> "deposit_saveTx", poolId |-> poolId, amount |-> amount,
                        loaded |-> pool, pool |-> pool,
                        transaction |-> NewTransaction(nextTxId, NoId, "deposit",
                            amount, now, Admin, poolId, NoTime)])
            /\ nextTxId' = nextTxId + 1
    /\ UNCHANGED <<pools, nextPoolId, ledger, now>>

DepositSaveTx(r) ==
    /\ req[r].pc = "deposit_saveTx"
    /\ ledger' = Append(ledger, req[r].transaction)
    /\ Goto(r, [req[r] EXCEPT !.pc = "deposit_savePool",
                   !.pool.liquidity = @ + req[r].amount])
    /\ UNCHANGED <<pools, nextPoolId, nextTxId, now>>

DepositSavePool(r) ==
    /\ req[r].pc = "deposit_savePool"
    /\ PoolSave(r, "deposit")
    /\ UNCHANGED <<nextPoolId, ledger, nextTxId, now>>

\* ------------------------------------------------------- withdrawFromPool
WithdrawBegin(r, poolId, amount) ==
    /\ Free(r)
    /\ Room
    /\ LET pool == FindPool(poolId)
           args == [poolId |-> poolId, amount |-> amount] IN
       IF InvalidAmount(amount)
       THEN /\ Respond(r, "withdraw", "invalid_amount", args)
            /\ UNCHANGED nextTxId
       ELSE IF pool = Null
       THEN /\ Respond(r, "withdraw", "pool_not_found", args)
            /\ UNCHANGED nextTxId
       ELSE IF InsufficientLiquidity(pool, amount)
       THEN /\ Respond(r, "withdraw", "insufficient_liquidity", args)
            /\ UNCHANGED nextTxId
       ELSE /\ Goto(r, [pc |-> "withdraw_saveTx", poolId |-> poolId, amount |-> amount,
                        loaded |-> pool, pool |-> pool,
                        transaction |-> NewTransaction(nextTxId, NoId, "withdraw",
                            amount, now, Admin, poolId, NoTime)])
            /\ nextTxId' = nextTxId + 1
    /\ UNCHANGED <<pools, nextPoolId, ledger, now>>

WithdrawSaveTx(r) ==
    /\ req[r].pc = "withdraw_saveTx"
    /\ ledger' = Append(ledger, req[r].transaction)
    /\ Goto(r, [req[r] EXCEPT !.pc = "withdraw_savePool",
                   !.pool.liquidity = @ - req[r].amount])
    /\ UNCHANGED <<pools, nextPoolId, nextTxId, now>>

WithdrawSavePool(r) ==
    /\ req[r].pc = "withdraw_savePool"
    /\ PoolSave(r, "withdraw")
    /\ UNCHANGED <<nextPoolId, ledger, nextTxId, now>>

\* ------------------------------------------------------------- updatePool
\* a field the request body does not provide is Absent; a name is taken when
\* it is truthy, the numbers when they are not undefined
UpdateBegin(r, poolId, name, apy, minStake, lockPeriod) ==
    /\ Free(r)
    /\ LET pool == FindPool(poolId) IN
       IF pool = Null THEN Respond(r, "updatePool", "pool_not_found", [poolId |-> poolId])
       ELSE Goto(r, [pc |-> "update_save", poolId |-> poolId,
                     body |-> [name |-> name, apy |-> apy, minStake |-> minStake,
                               lockPeriod |-> lockPeriod],
                     loaded |-> pool,
                     pool |-> [pool EXCEPT
                        !.name       = IF name # "" THEN name ELSE @,
                        !.apy        = IF apy # Absent THEN apy ELSE @,
                        !.minStake   = IF minStake # Absent THEN minStake ELSE @,
                        !.lockPeriod = IF lockPeriod # Absent THEN lockPeriod ELSE @]])
    /\ UNCHANGED <<pools, nextPoolId, ledger, nextTxId, now>>

UpdateSave(r) ==
    /\ req[r].pc = "update_save"
    /\ PoolSave(r, "updatePool")
    /\ UNCHANGED <<nextPoolId, ledger, nextTxId, now>>

\* ------------------------------------------------------------- deletePool
\* variant: the pool's events deleted with it
DeletePoolCascade(r, poolId) ==
    /\ Free(r)
    /\ IF poolId \notin DOMAIN pools
       THEN /\ Respond(r, "deletePool", "pool_not_found", [poolId |-> poolId])
            /\ UNCHANGED <<pools, ledger>>
       ELSE /\ pools' = [q \in DOMAIN pools \ {poolId} |-> pools[q]]
            /\ ledger' = SelectSeq(ledger, LAMBDA t : t.poolId # poolId)
            /\ Respond(r, "deletePool", "ok", [poolId |-> poolId])
    /\ UNCHANGED <<nextPoolId, nextTxId, now>>

\* Pool.findByIdAndDelete(poolId)
DeletePool(r, poolId) ==
    /\ Free(r)
    /\ IF poolId \notin DOMAIN pools
       THEN /\ Respond(r, "deletePool", "pool_not_found", [poolId |-> poolId])
            /\ UNCHANGED pools
       ELSE /\ pools' = [q \in DOMAIN pools \ {poolId} |-> pools[q]]
            /\ Respond(r, "deletePool", "ok", [poolId |-> poolId])
    /\ UNCHANGED <<nextPoolId, ledger, nextTxId, now>>

\* ------------------------------------------------------- calculateRewards
\* Transaction.findOne({ originalTransactionId, type: 'unstake' })
FindUnstakeOf(transactionId) ==
    First({i \in 1..Len(ledger) :
            LET t == ledger[i] IN /\ t.originalTransactionId = transactionId
                                  /\ t.type = "unstake"})

\* n / d rounded to the nearest integer, a half rounded up: toFixed
Round(n, d) == (2 * n + d) \div (2 * d)

\* variant: the position measured to the evaluation time, closed or not
EndTimeNow(unstakeCheck, t) == t

\* unstakeCheck ? new Date(unstakeCheck.timestamp).getTime() : new Date().getTime()
EndTime(unstakeCheck, t) == IF unstakeCheck # Null THEN unstakeCheck.timestamp ELSE t

\* parseFloat((stakingDurationMs / (1000 * 60 * 60 * 24)).toFixed(2)),
\* in hundredths of a day; the clock of the model shows whole seconds
DurationDays(stakingDurationMs) ==
    Round((stakingDurationMs \div 1000) * 100, MsPerDay \div 1000)

\* variant: the reward truncated to six decimals
RewardsTruncated(amount, apy, stakingDurationMs) ==
    (amount * apy * (stakingDurationMs \div 1000))
        \div (((MsPerDay \div 1000) * DaysPerYear) \div 1000)

\* parseFloat(((amount * apy / 100) * (stakingDurationDays / 365)).toFixed(6)),
\* in millionths of a token: amount/10 * apy/100 * ms/MsPerDay/365 * 10^6
Rewards(amount, apy, stakingDurationMs) ==
    Round(amount * apy * (stakingDurationMs \div 1000),
          ((MsPerDay \div 1000) * DaysPerYear) \div 1000)

RewardsBegin(r, userId, transactionId) ==
    /\ Free(r)
    /\ LET stakeTransaction == FindStake(transactionId, userId)
           args == [userId |-> userId, transactionId |-> transactionId] IN
       IF stakeTransaction = Null THEN Respond(r, "rewards", "stake_not_found", args)
       ELSE Goto(r, [pc |-> "rewards_findPool", userId |-> userId,
                     transactionId |-> transactionId,
                     stakeTransaction |-> stakeTransaction])
    /\ UNCHANGED <<pools, nextPoolId, ledger, nextTxId, now>>

RewardsFindPool(r) ==
    /\ req[r].pc = "rewards_findPool"
    /\ LET pool == FindPool(req[r].stakeTransaction.poolId) IN
       IF pool = Null THEN Respond(r, "rewards", "pool_not_found", Args(r))
       ELSE Goto(r, [req[r] EXCEPT !.pc = "rewards_findUnstake"] @@ [pool |-> pool])
    /\ UNCHANGED <<pools, nextPoolId, ledger, nextTxId, now>>

\* variant: the reward is also settled, as a ledger event
RewardsFindUnstakeSettling(r) ==
    /\ req[r].pc = "rewards_findUnstake"
    /\ Len(ledger) < MaxLedger
    /\ ledger' = Append(ledger, NewTransaction(nextTxId, req[r].transactionId,
                    "reward", 0, now, req[r].userId,
                    req[r].stakeTransaction.poolId, NoTime))
    /\ nextTxId' = nextTxId + 1
    /\ Respond(r, "rewards", "ok", Args(r))
    /\ UNCHANGED <<pools, nextPoolId, now>>

RewardsFindUnstake(r) ==
    /\ req[r].pc = "rewards_findUnstake"
    /\ LET st == req[r].stakeTransaction
           unstakeCheck == FindUnstakeOf(req[r].transactionId)
           stakingDurationMs == EndTime(unstakeCheck, now) - st.timestamp IN
       Respond(r, "rewards", "ok",
               Args(r) @@ [stakeAmount |-> st.amount,
                           stakingDurationDays |-> DurationDays(stakingDurationMs),
                           apy |-> req[r].pool.apy,
                           rewards |-> Rewards(st.amount, req[r].pool.apy,
                                               stakingDurationMs),
                           isUnstaked |-> unstakeCheck # Null])
    /\ UNCHANGED <<pools, nextPoolId, ledger, nextTxId, now>>

\* ---------------------------------------------------------- getUserStakes
\* variant: the query without its userId
FindByTypeOnly(userId, type) ==
    {i \in 1..Len(ledger) : ledger[i].type = type}

\* Transaction.find({ userId, type }): the positions of the matching events
FindByUser(userId, type) ==
    {i \in 1..Len(ledger) : ledger[i].userId = userId /\ ledger[i].type = type}

\* .sort({ timestamp: -1 }): the orders the database may return, latest
\* first; events of the same timestamp come in any order
SortedByTimestampDesc(S) ==
    {s \in [1..Cardinality(S) -> S] :
        /\ \A i, j \in DOMAIN s : s[i] = s[j] => i = j
        /\ \A i, j \in DOMAIN s : i < j => ledger[s[i]].timestamp >= ledger[s[j]].timestamp}

\* unstakeMap[transaction.transactionId] after the forEach: the last of the
\* unstake events that reference the stake
UnstakeInfo(unstakeTransactions, transactionId) ==
    LET S == {i \in DOMAIN unstakeTransactions :
                /\ unstakeTransactions[i].originalTransactionId # NoId
                /\ unstakeTransactions[i].originalTransactionId = transactionId}
    IN IF S = {} THEN Null
       ELSE unstakeTransactions[CHOOSE i \in S : \A j \in S : j <= i]

\* { ...transaction.toObject(), isUnstaked, unstakeTime }
Enriched(transaction, unstakeInfo) ==
    transaction @@ [isUnstaked  |-> unstakeInfo # Null,
                    unstakeTime |-> IF unstakeInfo # Null THEN unstakeInfo.timestamp
                                    ELSE NoTime]

UserStakesBegin(r, userId) ==
    /\ Free(r)
    /\ \E s \in SortedByTimestampDesc(FindByUser(userId, "stake")) :
        Goto(r, [pc |-> "userStakes_findUnstakes", userId |-> userId,
                 stakeTransactions |-> [i \in DOMAIN s |-> ledger[s[i]]]])
    /\ UNCHANGED <<pools, nextPoolId, ledger, nextTxId, now>>

UserStakesFindUnstakes(r) ==
    /\ req[r].pc = "userStakes_findUnstakes"
    /\ LET found == FindByUser(req[r].userId, "unstake")
           unstakeTransactions == SelectSeq(ledger,
                LAMBDA t : \E i \in found : ledger[i] = t)
           stakeTransactions == req[r].stakeTransactions IN
       Respond(r, "userStakes", "ok",
               [userId |-> req[r].userId,
                stakes |-> [i \in DOMAIN stakeTransactions |->
                    Enriched(stakeTransactions[i],
                             UnstakeInfo(unstakeTransactions,
                                         stakeTransactions[i].transactionId))]])
    /\ UNCHANGED <<pools, nextPoolId, ledger, nextTxId, now>>

UserStakes(r) ==
    \/ \E u \in UserIds : UserStakesBegin(r, u)
    \/ UserStakesFindUnstakes(r)

Rewarding(r) ==
    \/ \E u \in UserIds, t \in TxIds : RewardsBegin(r, u, t)
    \/ RewardsFindPool(r)
    \/ RewardsFindUnstake(r)

Tick ==
    /\ now < MaxTicks * MsPerDay
    /\ now' = now + MsPerDay
    /\ resp' = NoResp
    /\ UNCHANGED <<pools, nextPoolId, ledger, nextTxId, req>>

Staking(r) ==
    \/ \E u \in UserIds, p \in PoolIds, a \in Amounts : StakeBegin(r, u, p, a)
    \/ StakeFindUser(r)
    \/ StakeSaveTx(r)
    \/ StakeSavePool(r)
    \/ \E u \in UserIds, t \in TxIds : UnstakeBegin(r, u, t)
    \/ UnstakeCheck(r)
    \/ UnstakeFindPool(r)
    \/ UnstakeSaveTx(r)
    \/ UnstakeSavePool(r)

Liquidity(r) ==
    \/ \E p \in PoolIds, a \in Amounts : DepositBegin(r, p, a)
    \/ DepositSaveTx(r)
    \/ DepositSavePool(r)
    \/ \E p \in PoolIds, a \in Amounts : WithdrawBegin(r, p, a)
    \/ WithdrawSaveTx(r)
    \/ WithdrawSavePool(r)

Create(r) ==
    \E n \in Names, ty \in Types, a \in Apys \cup {0, Absent},
       m \in MinStakes \cup {0}, l \in LockPeriods : CreatePool(r, n, ty, a, m, l)

Registry(r) ==
    \/ \E p \in PoolIds, m \in MinStakes \cup {Absent},
          l \in LockPeriods \cup {Absent} : UpdateBegin(r, p, "", Absent, m, l)
    \/ UpdateSave(r)
    \/ \E p \in PoolIds : DeletePool(r, p)

\* one request at a time: with a single handler, a request runs to its
\* response before the next one starts
Serial == {1}

NextSeq ==
    \/ Tick
    \/ \E r \in Serial : Create(r) \/ Staking(r) \/ Liquidity(r) \/ Registry(r)

SpecSeq == Init /\ [][NextSeq]_vars

\* stakeTokens, unstakeTokens and calculateRewards, one request at a time
NextRewards ==
    \/ Tick
    \/ \E r \in Serial : Create(r) \/ Staking(r) \/ Rewarding(r)

SpecRewards == Init /\ [][NextRewards]_vars

\* stake and unstake requests served concurrently, by MaxReqs handlers
Next ==
    \/ Tick
    \/ \E r \in Reqs : Create(r) \/ Staking(r)

Spec == Init /\ [][Next]_vars

\* a database error in pool.save(): the catch block logs it and answers 500;
\* the transaction saved before it stays
PoolSaveFails(r) ==
    /\ req[r].pc \in {"stake_savePool", "unstake_savePool"}
    /\ Respond(r, IF req[r].pc = "stake_savePool" THEN "stake" ELSE "unstake",
               "server_error", Args(r))
    /\ UNCHANGED <<pools, nextPoolId, ledger, nextTxId, now>>

\* one request at a time, and a pool.save() of stake or unstake may fail
NextFault ==
    \/ Tick
    \/ \E r \in Serial : Create(r) \/ Staking(r) \/ PoolSaveFails(r)

\* the event loop resumes every handler whose awaited call has returned;
\* nothing obliges a client to send a request
Resume(r) ==
    \/ StakeFindUser(r)
    \/ StakeSaveTx(r)
    \/ StakeSavePool(r)
    \/ UnstakeCheck(r)
    \/ UnstakeFindPool(r)
    \/ UnstakeSaveTx(r)
    \/ UnstakeSavePool(r)

SpecFault == Init /\ [][NextFault]_vars /\ \A r \in Serial : WF_vars(Resume(r))

\* a stake request and an unstake request of an earlier stake, served
\* concurrently: the state after createPool({name: "P", type: "lock", apy: 5}),
\* a completed stake of 1 by u1 and a day
InitOpenStake ==
    /\ pools = (1 :> [NewPool("P", "lock", 5, 0, 0) EXCEPT !.totalStaked = 1])
    /\ nextPoolId = 2
    /\ ledger = <<NewTransaction(1, NoId, "stake", 1, 0, "u1", 1, NoTime)>>
    /\ nextTxId = 2
    /\ now = MsPerDay
    /\ req = [r \in Reqs |-> IdleReq]
    /\ resp = NoResp

NextStakeVsUnstake ==
    \/ Tick
    \/ \E r \in Reqs :
        \/ \E u \in UserIds, p \in PoolIds, a \in Amounts : StakeBegin(r, u, p, a)
        \/ StakeFindUser(r)
        \/ StakeSaveTx(r)
        \/ StakeSavePool(r)
        \/ \E u \in UserIds : UnstakeBegin(r, u, 1)
        \/ UnstakeCheck(r)
        \/ UnstakeFindPool(r)
        \/ UnstakeSaveTx(r)
        \/ UnstakeSavePool(r)

SpecStakeVsUnstake == InitOpenStake /\ [][NextStakeVsUnstake]_vars

\* the handlers that write a pool, and calculateRewards, served concurrently:
\* the state after createPool({name: "P", type: "lock", apy: 5}) and a
\* completed deposit of 1
InitFundedPool ==
    /\ pools = (1 :> [NewPool("P", "lock", 5, 0, 0) EXCEPT !.liquidity = 1])
    /\ nextPoolId = 2
    /\ ledger = <<NewTransaction(1, NoId, "deposit", 1, 0, Admin, 1, NoTime)>>
    /\ nextTxId = 2
    /\ now = 0
    /\ req = [r \in Reqs |-> IdleReq]
    /\ resp = NoResp

\* one staker and the admin, within one tick of the clock
NextPoolWrites ==
    \E r \in Reqs :
        \/ \E p \in PoolIds, a \in Amounts : StakeBegin(r, "u1", p, a)
        \/ StakeFindUser(r)
        \/ StakeSaveTx(r)
        \/ StakeSavePool(r)
        \/ \E t \in TxIds : UnstakeBegin(r, "u1", t)
        \/ UnstakeCheck(r)
        \/ UnstakeFindPool(r)
        \/ UnstakeSaveTx(r)
        \/ UnstakeSavePool(r)
        \/ Liquidity(r)
        \/ \E p \in PoolIds, m \in MinStakes : UpdateBegin(r, p, "", Absent, m, Absent)
        \/ UpdateSave(r)
        \/ \E t \in TxIds : RewardsBegin(r, "u1", t)
        \/ RewardsFindPool(r)
        \/ RewardsFindUnstake(r)

SpecPoolWrites == InitFundedPool /\ [][NextPoolWrites]_vars

\* stake requests as the router serves them, one at a time
NextStakeRoute ==
    \/ Tick
    \/ \E r \in Serial :
        \/ Create(r)
        \/ \E u \in UserIds, p \in PoolIds, b \in BodyPoolIds, a \in BodyAmounts :
                StakeRoute(r, u, p, b, a)
        \/ StakeFindUser(r)
        \/ StakeSaveTx(r)
        \/ StakeSavePool(r)

SpecStakeRoute == Init /\ [][NextStakeRoute]_vars

\* createPool, stakeTokens, unstakeTokens, calculateRewards and deletePool,
\* one request at a time
NextDelete ==
    \/ Tick
    \/ \E r \in Serial :
        \/ Create(r)
        \/ Staking(r)
        \/ Rewarding(r)
        \/ \E p \in PoolIds : DeletePool(r, p)

SpecDelete == Init /\ [][NextDelete]_vars

\* two pools side by side: the state after createPool({name: "P", type:
\* "lock", apy: 5}) and createPool({name: "Q", type: "lock", apy: 5,
\* minStake: 0.2})
PoolsAB == {1, 2}

InitTwoPools ==
    /\ pools = (1 :> NewPool("P", "lock", 5, 0, 0)) @@ (2 :> NewPool("Q", "lock", 5, 2, 0))
    /\ nextPoolId = 3
    /\ ledger = <<>>
    /\ nextTxId = 1
    /\ now = 0
    /\ req = [r \in Reqs |-> IdleReq]
    /\ resp = NoResp

\* stake, unstake, deposit and withdraw on either pool, served concurrently;
\* one staker and the admin, within one tick of the clock
NextTwoPools ==
    \E r \in Reqs :
        \/ \E p \in PoolsAB, a \in Amounts : StakeBegin(r, "u1", p, a)
        \/ StakeFindUser(r)
        \/ StakeSaveTx(r)
        \/ StakeSavePool(r)
        \/ \E t \in TxIds : UnstakeBegin(r, "u1", t)
        \/ UnstakeCheck(r)
        \/ UnstakeFindPool(r)
        \/ UnstakeSaveTx(r)
        \/ UnstakeSavePool(r)
        \/ \E p \in PoolsAB, a \in Amounts : DepositBegin(r, p, a)
        \/ DepositSaveTx(r)
        \/ DepositSavePool(r)
        \/ \E p \in PoolsAB, a \in Amounts : WithdrawBegin(r, p, a)
        \/ WithdrawSaveTx(r)
        \/ WithdrawSavePool(r)

SpecTwoPools == InitTwoPools /\ [][NextTwoPools]_vars

\* createPool, stakeTokens, unstakeTokens and getUserStakes, one request at
\* a time
NextUserStakes ==
    \/ Tick
    \/ \E r \in Serial :
        \/ Create(r)
        \/ Staking(r)
        \/ UserStakes(r)

SpecUserStakes == Init /\ [][NextUserStakes]_vars

\* updatePool and deletePool served concurrently with the handlers that
\* write a pool's aggregates and with calculateRewards, from the state after
\* createPool and a deposit; one staker and the admin, within one tick
NextRegistry ==
    \E r \in Reqs :
        \/ \E p \in PoolIds, a \in Amounts : StakeBegin(r, "u1", p, a)
        \/ StakeFindUser(r)
        \/ StakeSaveTx(r)
        \/ StakeSavePool(r)
        \/ \E t \in TxIds : UnstakeBegin(r, "u1", t)
        \/ UnstakeCheck(r)
        \/ UnstakeFindPool(r)
        \/ UnstakeSaveTx(r)
        \/ UnstakeSavePool(r)
        \/ Liquidity(r)
        \/ \E p \in PoolIds, a \in {0, Absent}, m \in MinStakes \cup {Absent} :
                UpdateBegin(r, p, "", a, m, Absent)
        \/ UpdateSave(r)
        \/ \E p \in PoolIds : DeletePool(r, p)
        \/ \E t \in TxIds : RewardsBegin(r, "u1", t)
        \/ RewardsFindPool(r)
        \/ RewardsFindUnstake(r)

SpecRegistry == InitFundedPool /\ [][NextRegistry]_vars

\* ===================================================== ledger-derived sums
RECURSIVE SumAmounts(_)
SumAmounts(S) ==
    IF S = {} THEN 0
    ELSE LET i == CHOOSE x \in S : TRUE IN ledger[i].amount + SumAmounts(S \ {i})

StakesOf(p) == {i \in 1..Len(ledger) : ledger[i].type = "stake" /\ ledger[i].poolId = p}

\* the unstake events that reference stake event i
Closing(i) ==
    {j \in 1..Len(ledger) : /\ ledger[j].type = "unstake"
                            /\ ledger[j].originalTransactionId = ledger[i].transactionId}

OpenStakes(p) == {i \in StakesOf(p) : Closing(i) = {}}
OpenStakeSum(p) == SumAmounts(OpenStakes(p))

IsClosed(transactionId) ==
    \E j \in 1..Len(ledger) : /\ ledger[j].type = "unstake"
                              /\ ledger[j].originalTransactionId = transactionId

\* no handler is in flight
Settled == \A r \in Reqs : req[r].pc = "idle"

\* handler r takes a step from position pc
Steps(r, pc) == req[r].pc = pc /\ req'[r] # req[r]

Answers(r, op, status) == resp'.by = r /\ resp'.op = op /\ resp'.status = status

\* once past the checks, an unstake whose pool exists appends one unstake
\* event for the stake, with the stake's amount, and answers 200
UnstakeGoesThrough(r) ==
    /\ (Steps(r, "unstake_findPool") /\ req[r].stakeTransaction.poolId \in DOMAIN pools)
            => (req'[r].pc = "unstake_saveTx")
    /\ Steps(r, "unstake_saveTx")
            => (/\ Len(ledger') = Len(ledger) + 1
                /\ SubSeq(ledger', 1, Len(ledger)) = ledger
                /\ ledger'[Len(ledger')].type = "unstake"
                /\ ledger'[Len(ledger')].originalTransactionId = req[r].transactionId
                /\ ledger'[Len(ledger')].amount = req[r].stakeTransaction.amount
                /\ req'[r].pc = "unstake_savePool")
    /\ (Steps(r, "unstake_savePool") /\ req[r].poolId \in DOMAIN pools)
            => Answers(r, "unstake", "ok")

\* ================================================================== claims

\* C1: with requests served one at a time, whenever none is in flight every
\* pool's totalStaked is the sum of the amounts of its stake events that no
\* unstake event references.
C1_TotalStakedIsOpenSum ==
    Settled => \A p \in DOMAIN pools : pools[p].totalStaked = OpenStakeSum(p)

C1_Witness ==
    /\ Settled
    /\ \E p \in DOMAIN pools :
        /\ pools[p].totalStaked > 0
        /\ OpenStakes(p) # {}
        /\ StakesOf(p) \ OpenStakes(p) # {}

\* C2: whenever no request is in flight, every pool has a stakerCount, and it
\* is the number of the pool's stake events that no unstake event references.
C2_StakerCountIsOpenCount ==
    Settled => \A p \in DOMAIN pools :
        /\ "stakerCount" \in DOMAIN pools[p]
        /\ pools[p].stakerCount = Cardinality(OpenStakes(p))

\* C3: served one at a time, an unstake of an open, unlocked stake whose pool
\* exists goes through, and an unstake by the owner of a stake that an unstake
\* event already references is answered "already unstaked", appends nothing
\* and leaves every pool as it was.
C3_SecondUnstakeRejected ==
    [][\A r \in Reqs :
        /\ (Steps(r, "unstake_findUnstake") /\ IsClosed(req[r].transactionId))
            => (/\ Answers(r, "unstake", "already_unstaked")
                /\ ledger' = ledger
                /\ pools' = pools)
        /\ (/\ Steps(r, "unstake_findUnstake")
            /\ ~IsClosed(req[r].transactionId)
            /\ (\/ req[r].stakeTransaction.unlockTime = NoTime
                \/ now >= req[r].stakeTransaction.unlockTime))
            => (req'[r].pc = "unstake_findPool")
        /\ UnstakeGoesThrough(r)
      ]_vars

C3_Witness ==
    /\ resp.op = "unstake"
    /\ resp.status = "already_unstaked"
    /\ Cardinality({j \in 1..Len(ledger) :
            /\ ledger[j].type = "unstake"
            /\ ledger[j].originalTransactionId = resp.args.transactionId}) = 1

\* C4: in every state, also with unstake requests for one stake interleaved,
\* at most one unstake event references any stake event.
C4_AtMostOneUnstake ==
    \A i \in 1..Len(ledger) : ledger[i].type = "stake" => Cardinality(Closing(i)) <= 1

\* C5: when stake requests have run concurrently and all have completed (no
\* unstake recorded), totalStaked is the sum of all the stake amounts.
C5_NoLostIncrement ==
    (Settled /\ \A i \in 1..Len(ledger) : ledger[i].type = "stake")
        => \A p \in DOMAIN pools : pools[p].totalStaked = SumAmounts(StakesOf(p))

\* C6: when stake and unstake requests have run concurrently, each unstake
\* closing a different stake, and all have completed, totalStaked is the sum
\* of the open stakes.
C6_SettledAfterStakeAndUnstake ==
    (/\ Settled
     /\ \A i \in 1..Len(ledger) : Cardinality(Closing(i)) <= 1
     /\ \E i \in 1..Len(ledger) : ledger[i].type = "unstake")
        => \A p \in DOMAIN pools : pools[p].totalStaked = OpenStakeSum(p)

\* C7: an unstake of a stake with an unlockTime is answered "still locked"
\* while now < unlockTime, appending nothing and leaving the pools as they
\* were; from now = unlockTime on, the stake being open and its pool existing,
\* it goes through.
C7_LockEnforced ==
    [][\A r \in Reqs :
        LET st == req[r].stakeTransaction IN
        /\ (/\ Steps(r, "unstake_findUnstake")
            /\ st.unlockTime # NoTime
            /\ now < st.unlockTime)
            => (/\ Answers(r, "unstake", "still_locked")
                /\ ledger' = ledger
                /\ pools' = pools)
        /\ (/\ Steps(r, "unstake_findUnstake")
            /\ st.unlockTime # NoTime
            /\ now >= st.unlockTime
            /\ ~IsClosed(req[r].transactionId))
            => (req'[r].pc = "unstake_findPool")
        /\ (/\ req[r].pc \in {"unstake_findPool", "unstake_saveTx", "unstake_savePool"}
            /\ st.unlockTime # NoTime)
            => (now >= st.unlockTime /\ UnstakeGoesThrough(r))
      ]_vars

C7_Witness ==
    /\ resp.op = "unstake" /\ resp.status = "ok"
    /\ \E i \in 1..Len(ledger) :
        /\ ledger[i].type = "unstake"
        /\ ledger[i].originalTransactionId = resp.args.transactionId
        /\ \E k \in 1..Len(ledger) :
            /\ ledger[k].transactionId = resp.args.transactionId
            /\ ledger[k].unlockTime = ledger[i].timestamp

\* C8: a stake request on an existing pool with an amount below the pool's
\* minStake is rejected in the step that reads the pool, whatever the pool's
\* liquidity and totalStaked: nothing is appended, no pool changes, and no
\* handler carries such a request further.
C8_MinimumEnforced ==
    [][\A r \in Reqs :
        /\ (/\ Free(r) /\ resp'.by = r /\ resp'.op = "stake"
            /\ resp'.args.poolId \in DOMAIN pools
            /\ resp'.args.amount < pools[resp'.args.poolId].minStake)
            => (/\ resp'.status \in {"below_minimum", "invalid_amount"}
                /\ (resp'.args.amount > 0 => resp'.status = "below_minimum")
                /\ ledger' = ledger
                /\ pools' = pools)
        /\ (Free(r) /\ req'[r].pc = "stake_findUser")
            => (/\ req'[r].poolId \in DOMAIN pools
                /\ req'[r].amount >= pools[req'[r].poolId].minStake)
      ]_vars

C8_Witness ==
    /\ resp.op = "stake" /\ resp.status = "below_minimum"
    /\ resp.args.amount > 0
    /\ pools[resp.args.poolId].liquidity > 0
    /\ pools[resp.args.poolId].totalStaked > 0

\* C9: whenever a pool's totalStaked differs from the sum of its open stakes
\* (an event appended, the pool.save() after it failed or still to come), it
\* later equals that sum again.
C9_EventuallyRepaired ==
    \A p \in PoolIds :
        (p \in DOMAIN pools /\ pools[p].totalStaked # OpenStakeSum(p))
            ~> (p \in DOMAIN pools /\ pools[p].totalStaked = OpenStakeSum(p))

\* C10: in every state, in flight or not, every event of the ledger is
\* reflected in its pool's totalStaked.
C10_NeverPartial ==
    \A p \in DOMAIN pools : pools[p].totalStaked = OpenStakeSum(p)

\* C11: in every state, also with requests served concurrently, every unstake
\* event has the originalTransactionId of a stake event of the ledger with
\* the same userId, the same poolId and the same amount.
C11_UnstakeReferencesStake ==
    \A j \in 1..Len(ledger) :
        ledger[j].type = "unstake" =>
            \E i \in 1..Len(ledger) :
                /\ ledger[i].type = "stake"
                /\ ledger[i].transactionId = ledger[j].originalTransactionId
                /\ ledger[i].userId = ledger[j].userId
                /\ ledger[i].poolId = ledger[j].poolId
                /\ ledger[i].amount = ledger[j].amount

C11_Witness ==
    \E i, j, k \in 1..Len(ledger) :
        /\ ledger[j].type = "unstake"
        /\ ledger[i].transactionId = ledger[j].originalTransactionId
        /\ ledger[k].type = "stake"
        /\ ledger[k].userId # ledger[j].userId
        /\ ledger[k].amount # ledger[j].amount

\* user u has no stake event with this transactionId: there is no such
\* event, or it is not a stake, or it is another user's
NoStakeOf(u, transactionId) ==
    ~\E i \in 1..Len(ledger) : /\ ledger[i].transactionId = transactionId
                               /\ ledger[i].type = "stake"
                               /\ ledger[i].userId = u

\* C12: an unstake or a reward calculation that user U requests for a
\* transactionId that is not a stake event of U is answered "stake not found"
\* in its first step; the answer carries nothing but the request's own
\* inputs, nothing is appended and no pool changes; a request that is carried
\* further is for a stake of U.
C12_ForeignStakeNotFound ==
    [][\A r \in Reqs :
        /\ (/\ Free(r) /\ resp'.by = r /\ resp'.op \in {"unstake", "rewards"}
            /\ NoStakeOf(resp'.args.userId, resp'.args.transactionId))
            => (/\ resp'.status = "stake_not_found"
                /\ DOMAIN resp'.args = {"userId", "transactionId"}
                /\ ledger' = ledger
                /\ pools' = pools)
        /\ (Free(r) /\ req'[r].pc \in {"unstake_findUnstake", "rewards_findPool"})
            => ~NoStakeOf(req'[r].userId, req'[r].transactionId)
      ]_vars

C12_Witness ==
    /\ resp.op = "rewards" /\ resp.status = "stake_not_found"
    /\ \E i \in 1..Len(ledger) :
        /\ ledger[i].transactionId = resp.args.transactionId
        /\ ledger[i].type = "stake"
        /\ ledger[i].userId # resp.args.userId

\* C13: also with requests served concurrently, a step changes a pool's
\* liquidity only if it is the pool.save() of a deposit or of a withdraw on
\* that pool that answers 200, and it stores that handler's liquidity; no
\* step of stake, unstake, updatePool or calculateRewards changes it.
C13_LiquidityOnlyByDepositWithdraw ==
    [][\A p \in DOMAIN pools \cap DOMAIN pools' :
        pools'[p].liquidity # pools[p].liquidity =>
            \E r \in Reqs :
                /\ req[r].pc \in {"deposit_savePool", "withdraw_savePool"}
                /\ req[r].poolId = p
                /\ resp'.by = r
                /\ resp'.op = (IF req[r].pc = "deposit_savePool"
                                THEN "deposit" ELSE "withdraw")
                /\ resp'.status = "ok"
                /\ pools'[p].liquidity = req[r].pool.liquidity
      ]_vars

\* a stake, an update or an unstake was answered 200 on a pool whose
\* liquidity a deposit had changed meanwhile
C13_Witness ==
    /\ resp.op \in {"stake", "unstake", "updatePool"} /\ resp.status = "ok"
    /\ \E p \in DOMAIN pools :
        /\ pools[p].liquidity = 2
        /\ pools[p].totalStaked > 0
    /\ ledger[Len(ledger)].type = "deposit"

\* C14: served one at a time, a withdraw from an existing pool with an amount
\* above its liquidity is answered "insufficient liquidity", appends nothing
\* and changes no pool; one with 0 < amount <= liquidity is not refused,
\* appends one withdraw event of that amount and then stores the liquidity
\* less exactly the amount, answering 200.
C14_WithdrawWithinLiquidity ==
    [][\A r \in Reqs :
        /\ (/\ Free(r) /\ resp'.by = r /\ resp'.op = "withdraw"
            /\ resp'.args.poolId \in DOMAIN pools
            /\ resp'.args.amount > pools[resp'.args.poolId].liquidity)
            => (/\ resp'.status = "insufficient_liquidity"
                /\ ledger' = ledger
                /\ pools' = pools)
        /\ (/\ Free(r) /\ resp'.by = r /\ resp'.op = "withdraw"
            /\ resp'.args.poolId \in DOMAIN pools)
            => ~(/\ 0 < resp'.args.amount
                 /\ resp'.args.amount <= pools[resp'.args.poolId].liquidity)
        /\ Steps(r, "withdraw_saveTx")
            => (/\ Len(ledger') = Len(ledger) + 1
                /\ SubSeq(ledger', 1, Len(ledger)) = ledger
                /\ ledger'[Len(ledger')].type = "withdraw"
                /\ ledger'[Len(ledger')].poolId = req[r].poolId
                /\ ledger'[Len(ledger')].amount = req[r].amount
                /\ pools' = pools
                /\ req'[r].pc = "withdraw_savePool")
        /\ Steps(r, "withdraw_savePool")
            => (/\ Answers(r, "withdraw", "ok")
                /\ req[r].poolId \in DOMAIN pools
                /\ pools' = [pools EXCEPT ![req[r].poolId].liquidity =
                                            @ - req[r].amount]
                /\ ledger' = ledger)
      ]_vars

\* a withdraw of exactly the liquidity was answered 200
C14_Witness ==
    /\ resp.op = "withdraw" /\ resp.status = "ok"
    /\ resp.args.amount = MaxAmount
    /\ pools[resp.args.poolId].liquidity = 0

\* C15: in every state, also when two withdraw requests on one pool have
\* both passed the liquidity check before either saved, every pool's
\* liquidity is at least 0.
C15_LiquidityNeverNegative ==
    \A p \in DOMAIN pools : pools[p].liquidity >= 0

\* two withdraws of 1 were recorded against a single deposit of 1
C15_Witness ==
    /\ Settled
    /\ Len(ledger) = 3
    /\ ledger[2].type = "withdraw" /\ ledger[3].type = "withdraw"
    /\ \A p \in DOMAIN pools : pools[p].liquidity = 0

\* handler r is serving a calculateRewards request
InRewards(r) == req[r].pc \in {"rewards_findPool", "rewards_findUnstake"}

\* C16: no step of calculateRewards, whether the request ends in 200 or in
\* 404, changes the ledger or any pool document.
C16_RewardsPureRead ==
    [][\A r \in Reqs :
        (\/ InRewards(r) /\ req'[r] # req[r]
         \/ Free(r) /\ InRewards(r)'
         \/ Free(r) /\ resp'.by = r /\ resp'.op = "rewards")
            => (ledger' = ledger /\ pools' = pools /\ nextPoolId' = nextPoolId)
      ]_vars

C16_Witness ==
    /\ resp.op = "rewards" /\ resp.status = "ok"
    /\ resp.args.rewards > 0
    /\ \E p \in DOMAIN pools : pools[p].totalStaked > 0

\* the time a position has run when handler r answers: to the unstake event
\* that references the stake if there is one, to now otherwise
Elapsed(r) ==
    LET st == req[r].stakeTransaction
        closing == {j \in 1..Len(ledger) :
                        /\ ledger[j].type = "unstake"
                        /\ ledger[j].originalTransactionId = st.transactionId}
    IN IF closing = {} THEN now - st.timestamp
       ELSE ledger[CHOOSE j \in closing : TRUE].timestamp - st.timestamp

\* C17 as stated: the reward calculateRewards returns does not decrease when
\* the position runs longer, and doubling the stake amount or the APY
\* doubles it.
C17_RewardLinear ==
    [][\A r \in Reqs :
        Steps(r, "rewards_findUnstake") =>
            LET a == req[r].stakeTransaction.amount
                apy == req[r].pool.apy
                R == resp'.args.rewards
            IN /\ \A k \in 0..MaxTicks :
                    Rewards(a, apy, Elapsed(r) + k * MsPerDay) >= R
               /\ Rewards(2 * a, apy, Elapsed(r)) = 2 * R
               /\ Rewards(a, 2 * apy, Elapsed(r)) = 2 * R
      ]_vars

\* C17 amended: the reward returned, in millionths of a token, is the integer
\* nearest to amount * (apy / 100) * (elapsedDays / 365); it does not
\* decrease when the position runs longer, and doubling the stake amount or
\* the APY gives twice the reward to within one millionth.
C17_RewardRounded ==
    [][\A r \in Reqs :
        Steps(r, "rewards_findUnstake") =>
            LET a == req[r].stakeTransaction.amount
                apy == req[r].pool.apy
                R == resp'.args.rewards
                num == a * apy * (Elapsed(r) \div 1000)
                den == ((MsPerDay \div 1000) * DaysPerYear) \div 1000
                Near(x, y) == x - y \in -1..1
            IN /\ -den < 2 * (R * den - num) /\ 2 * (R * den - num) <= den
               /\ \A k \in 0..MaxTicks :
                    Rewards(a, apy, Elapsed(r) + k * MsPerDay) >= R
               /\ Near(Rewards(2 * a, apy, Elapsed(r)), 2 * R)
               /\ Near(Rewards(a, 2 * apy, Elapsed(r)), 2 * R)
      ]_vars

\* a reward was returned that a doubled amount does not double
C17_Witness ==
    /\ resp.op = "rewards" /\ resp.status = "ok"
    /\ resp.args.rewards > 0
    /\ \E d \in 1..MaxTicks :
        /\ resp.args.rewards = Rewards(resp.args.stakeAmount, resp.args.apy, d * MsPerDay)
        /\ Rewards(2 * resp.args.stakeAmount, resp.args.apy, d * MsPerDay)
                # 2 * resp.args.rewards

\* C18: served one at a time, calculateRewards for a stake that an unstake
\* event references answers isUnstaked = true and the reward for the time
\* from the stake's timestamp to the unstake's, whatever the time of the
\* request; for an open stake it answers isUnstaked = false and the reward
\* for the time from the stake's timestamp to now.
C18_ClosedPositionFrozen ==
    [][\A r \in Reqs :
        Steps(r, "rewards_findUnstake") =>
            LET st == req[r].stakeTransaction
                apy == pools[st.poolId].apy
            IN /\ Answers(r, "rewards", "ok")
               /\ resp'.args.stakeAmount = st.amount
               /\ resp'.args.apy = apy
               /\ \A j \in 1..Len(ledger) :
                    (ledger[j].type = "unstake"
                        /\ ledger[j].originalTransactionId = st.transactionId)
                    => (/\ resp'.args.isUnstaked = TRUE
                        /\ resp'.args.rewards =
                            Rewards(st.amount, apy, ledger[j].timestamp - st.timestamp))
               /\ ~IsClosed(st.transactionId)
                    => (/\ resp'.args.isUnstaked = FALSE
                        /\ resp'.args.rewards =
                            Rewards(st.amount, apy, now - st.timestamp))
      ]_vars

\* a closed position evaluated after its unstake: the reward is that of the
\* time to the unstake, not of the time to now
C18_Witness ==
    /\ resp.op = "rewards" /\ resp.status = "ok"
    /\ resp.args.isUnstaked = TRUE
    /\ resp.args.rewards > 0
    /\ \E i, j \in 1..Len(ledger) :
        /\ ledger[i].transactionId = resp.args.transactionId
        /\ ledger[j].originalTransactionId = resp.args.transactionId
        /\ ledger[j].type = "unstake"
        /\ ledger[j].timestamp < now
        /\ resp.args.rewards # Rewards(ledger[i].amount, resp.args.apy,
                                        now - ledger[i].timestamp)

\* C19: createPool answers "missing fields", creating no pool, exactly when
\* name, type or apy is missing from the request; given all three, with any
\* apy >= 0, it creates a pool with totalStaked 0, stakerCount 0, liquidity
\* 0, minStake 0.1 when none is given and lockPeriod 0 when none is given.
C19_CreatePoolValidation ==
    [][\A r \in Reqs :
        (Free(r) /\ resp'.by = r /\ resp'.op = "createPool") =>
            LET a == resp'.args
                provided == a.name # "" /\ a.type # "" /\ a.apy # Absent
            IN /\ (resp'.status = "missing_fields") <=> ~provided
               /\ ~provided => pools' = pools
               /\ (provided /\ a.apy >= 0) =>
                    /\ resp'.status = "ok"
                    /\ DOMAIN pools' = DOMAIN pools \cup {nextPoolId}
                    /\ nextPoolId \notin DOMAIN pools
                    /\ LET pool == pools'[nextPoolId] IN
                        /\ pool.totalStaked = 0
                        /\ pool.liquidity = 0
                        /\ pool.minStake =
                            (IF a.minStake = 0 THEN DefaultMinStake ELSE a.minStake)
                        /\ pool.lockPeriod =
                            (IF a.lockPeriod = 0 THEN DefaultLockPeriod ELSE a.lockPeriod)
                        /\ "stakerCount" \in DOMAIN pool
                        /\ pool.stakerCount = 0
      ]_vars

C21_LedgerAppendOnly ==
    [][/\ Len(ledger') >= Len(ledger)
       /\ SubSeq(ledger', 1, Len(ledger)) = ledger
       /\ \A i, j \in 1..Len(ledger') :
            ledger'[i].transactionId = ledger'[j].transactionId => i = j
      ]_vars

\* the pool was updated and then deleted after a stake, an unstake and a
\* deposit had been recorded: the three events are still there
C21_Witness ==
    /\ pools = <<>>
    /\ resp.op = "deletePool" /\ resp.status = "ok"
    /\ Len(ledger) = MaxLedger
    /\ \E i, j \in 1..Len(ledger) :
        /\ ledger[i].type = "stake"
        /\ ledger[j].type = "unstake"

\* the fields of a pool that updatePool may assign
Config == {"name", "apy", "minStake", "lockPeriod"}

\* the request of the updatePool in flight provides field f
Provided(r, f) == req[r].body[f] # (IF f = "name" THEN "" ELSE Absent)

\* C22: the save of an updatePool leaves totalStaked and liquidity of the
\* stored pool as they are, whatever stake, unstake, deposit or withdraw was
\* saved since the pool was read; a field the request does not provide keeps
\* its stored value and a provided one ends as the stored or the provided
\* value; nothing else is written. An updatePool enters its save only for a
\* pool that exists, and one answered not found (or failed because the pool
\* was deleted meanwhile) leaves pools and ledger unchanged.
C22_UpdateOnlyProvided ==
    [][\A r \in Reqs :
        /\ (Steps(r, "update_save") /\ req[r].poolId \in DOMAIN pools) =>
            LET p == req[r].poolId IN
            /\ Answers(r, "updatePool", "ok")
            /\ DOMAIN pools' = DOMAIN pools
            /\ pools'[p].totalStaked = pools[p].totalStaked
            /\ pools'[p].liquidity = pools[p].liquidity
            /\ \A f \in Config :
                IF Provided(r, f)
                THEN pools'[p][f] \in {pools[p][f], req[r].body[f]}
                ELSE pools'[p][f] = pools[p][f]
            /\ \A f \in DOMAIN pools[p] \ Config : pools'[p][f] = pools[p][f]
            /\ ledger' = ledger
        /\ (req[r].pc = "idle" /\ req'[r].pc = "update_save")
            => (req'[r].poolId \in DOMAIN pools /\ pools' = pools /\ ledger' = ledger)
        /\ (resp'.by = r /\ resp'.op = "updatePool" /\ resp'.status # "ok")
            => (/\ resp'.args.poolId \notin DOMAIN pools
                /\ pools' = pools /\ ledger' = ledger)
      ]_vars

\* an updatePool of minStake alone has answered 200 on a pool whose stored
\* aggregates had moved (a stake and a withdraw recorded): apy is the one
\* the pool was created with, the aggregates are those of the ledger
C22_Witness ==
    /\ resp.op = "updatePool" /\ resp.status = "ok"
    /\ resp.args.body.minStake = 2 /\ resp.args.body.apy = Absent
    /\ 1 \in DOMAIN pools
    /\ pools[1].minStake = 2 /\ pools[1].apy = 5
    /\ pools[1].totalStaked = 2 /\ pools[1].liquidity = 0
    /\ \E i, j \in 1..Len(ledger) :
        /\ ledger[i].type = "stake"
        /\ ledger[j].type = "withdraw"

\* an updatePool answered not found
C22_WitnessNotFound ==
    resp.op = "updatePool" /\ resp.status = "pool_not_found"

\* the pool a handler in flight is working on: the one of its request, or
\* of the stake it is closing
PoolOf(r) ==
    IF "poolId" \in DOMAIN req[r] THEN req[r].poolId
    ELSE IF "stakeTransaction" \in DOMAIN req[r] THEN req[r].stakeTransaction.poolId
    ELSE NoId

EventsOf(l, p) == SelectSeq(l, LAMBDA t : t.poolId = p)

\* C23: a step of a stake, unstake, deposit or withdraw working on pool A
\* leaves every other pool B as it is stored (totalStaked, liquidity and
\* configuration) and the ledger events of B as they are, whatever the other
\* handler in flight is doing on B; a step that starts a request writes
\* nothing.
C23_OtherPoolsUntouched ==
    [][\A r \in Reqs : (req'[r] # req[r]) =>
        /\ \A B \in DOMAIN pools \ {PoolOf(r)} :
            /\ B \in DOMAIN pools'
            /\ pools'[B] = pools[B]
            /\ EventsOf(ledger', B) = EventsOf(ledger, B)
        /\ req[r].pc = "idle" => (pools' = pools /\ ledger' = ledger)
      ]_vars

\* a stake on pool 1 has answered 200 while a deposit on pool 2 is between
\* its two saves: pool 1 holds the stake, pool 2 is as it was created
C23_Witness ==
    /\ resp.op = "stake" /\ resp.status = "ok" /\ resp.args.poolId = 1
    /\ pools[1].totalStaked = resp.args.amount
    /\ pools[2] = NewPool("Q", "lock", 5, 2, 0)
    /\ \E r \in Reqs : req[r].pc = "deposit_savePool" /\ req[r].poolId = 2
    /\ Len(EventsOf(ledger, 1)) = 1 /\ Len(EventsOf(ledger, 2)) = 1

\* C24: the stake event a stakeTokens request records carries unlockTime =
\* its timestamp + the pool's lock period in days when that lock period is
\* above 0, and no unlockTime when it is 0; no later step, an updatePool of
\* the lock period included, changes the unlockTime of a recorded event.
C24_UnlockTimeFromLockPeriod ==
    [][/\ \A r \in Serial : Steps(r, "stake_saveTx") =>
            LET e == ledger'[Len(ledger')]
                lockPeriod == pools[req[r].poolId].lockPeriod IN
            /\ Len(ledger') = Len(ledger) + 1
            /\ e.type = "stake"
            /\ e.poolId = req[r].poolId
            /\ IF lockPeriod > 0
               THEN e.unlockTime = e.timestamp + lockPeriod * MsPerDay
               ELSE e.unlockTime = NoTime
       /\ \A i \in 1..Len(ledger) :
            /\ i <= Len(ledger')
            /\ ledger'[i].unlockTime = ledger[i].unlockTime
            /\ ledger'[i].timestamp = ledger[i].timestamp
      ]_vars

\* an updatePool has set the lock period to 0 on a pool holding a stake made
\* a day later than the clock's start under a lock period of one day: the
\* event still carries its unlock time; another stake event carries none
C24_Witness ==
    /\ resp.op = "updatePool" /\ resp.status = "ok"
    /\ resp.args.body.lockPeriod = 0
    /\ pools[1].lockPeriod = 0
    /\ \E i \in 1..Len(ledger) :
        /\ ledger[i].type = "stake" /\ ledger[i].poolId = 1
        /\ ledger[i].timestamp = MsPerDay
        /\ ledger[i].unlockTime = 2 * MsPerDay

\* C25: in every reachable state, with stake and unstake requests
\* interleaved, the totalStaked of every stored pool is at least 0, and so is
\* the one a handler is about to save; the unstake that computes it takes
\* the stake's amount off the total it read, or 0 if that would go below.
C25_TotalStakedNeverNegative ==
    /\ \A p \in DOMAIN pools : pools[p].totalStaked >= 0
    /\ \A r \in Reqs : req[r].pc = "unstake_savePool" =>
        /\ req[r].pool.totalStaked >= 0
        /\ req[r].pool.totalStaked =
                Max(0, req[r].loaded.totalStaked - req[r].stakeTransaction.amount)

\* an unstake has read a total below the amount of its stake (the save of a
\* concurrent stake had been overwritten) and is about to save 0
C25_Witness ==
    \E r \in Reqs :
        /\ req[r].pc = "unstake_savePool"
        /\ req[r].loaded.totalStaked < req[r].stakeTransaction.amount
        /\ req[r].loaded.totalStaked > 0
        /\ req[r].pool.totalStaked = 0

DepositsOf(p) == {i \in 1..Len(ledger) : ledger[i].type = "deposit" /\ ledger[i].poolId = p}
WithdrawsOf(p) == {i \in 1..Len(ledger) : ledger[i].type = "withdraw" /\ ledger[i].poolId = p}

\* C26: whenever no request is in flight, the liquidity of every pool is the
\* sum of the amounts of its deposit events minus the sum of the amounts of
\* its withdraw events.
C26_LiquidityMatchesLedger ==
    Settled => \A p \in DOMAIN pools :
        pools[p].liquidity = SumAmounts(DepositsOf(p)) - SumAmounts(WithdrawsOf(p))

\* C27: a deletePool request for a stored pool answers 200 and removes that
\* pool's document and nothing else, whether or not the ledger holds open
\* stakes of the pool: every ledger event stays as it is; a deletePool
\* request for a pool that is not stored answers not found and changes
\* nothing.
C27_DeleteRemovesOnlyPool ==
    [][\A r \in Serial : (resp'.by = r /\ resp'.op = "deletePool") =>
        LET p == resp'.args.poolId IN
        /\ ledger' = ledger
        /\ IF p \in DOMAIN pools
           THEN /\ resp'.status = "ok"
                /\ DOMAIN pools' = DOMAIN pools \ {p}
                /\ \A q \in DOMAIN pools' : pools'[q] = pools[q]
           ELSE /\ resp'.status = "pool_not_found"
                /\ pools' = pools
      ]_vars

\* a pool has been deleted while the ledger holds an open stake of it
C27_Witness ==
    /\ resp.op = "deletePool" /\ resp.status = "ok"
    /\ resp.args.poolId \notin DOMAIN pools
    /\ OpenStakes(resp.args.poolId) # {}

\* a deletePool answered not found
C27_WitnessNotFound ==
    resp.op = "deletePool" /\ resp.status = "pool_not_found"

\* handler r is serving an unstake or a rewards request for an open stake it
\* has found, whose pool is no longer stored
OnOpenStakeOfDeletedPool(r) ==
    /\ "stakeTransaction" \in DOMAIN req[r]
    /\ req[r].stakeTransaction.poolId \notin DOMAIN pools
    /\ ~IsClosed(req[r].transactionId)

\* C28: once the pool of an open stake is deleted, an unstake request for
\* that stake appends no event and, when it answers, answers pool not found,
\* so the stake is open after every step; a calculateRewards request for it
\* answers not found.
C28_DeletedPoolRejectsUnstake ==
    [][\A r \in Serial : (OnOpenStakeOfDeletedPool(r) /\ req'[r] # req[r]) =>
        /\ ledger' = ledger
        /\ resp'.by = r => resp'.status = "pool_not_found"
        /\ req'[r].pc \in {"idle", "unstake_findPool"}
      ]_vars

\* the fields of a transaction document
TransactionFields == DOMAIN NewTransaction(NoId, NoId, "", 0, 0, "", NoId, NoTime)

\* C29: the list a getUserStakes request returns holds every stake event of
\* the ledger owned by the user, once each, and nothing else; an entry has
\* isUnstaked exactly when the ledger holds an unstake event whose
\* originalTransactionId is the entry's transactionId, its unstakeTime is
\* then that event's timestamp, and is null otherwise.
C29_UserStakesListed ==
    (resp.op = "userStakes") =>
        LET stakes == resp.args.stakes
            u == resp.args.userId
            Event(i) == [f \in TransactionFields |-> stakes[i][f]]
            Closings(i) == {j \in 1..Len(ledger) :
                            /\ ledger[j].type = "unstake"
                            /\ ledger[j].originalTransactionId = stakes[i].transactionId}
        IN /\ resp.status = "ok"
           /\ {Event(i) : i \in DOMAIN stakes} =
                    {ledger[j] : j \in {k \in 1..Len(ledger) :
                        ledger[k].type = "stake" /\ ledger[k].userId = u}}
           /\ \A i, j \in DOMAIN stakes :
                    stakes[i].transactionId = stakes[j].transactionId => i = j
           /\ \A i \in DOMAIN stakes :
                /\ stakes[i].isUnstaked <=> Closings(i) # {}
                /\ IF stakes[i].isUnstaked
                   THEN \A j \in Closings(i) : stakes[i].unstakeTime = ledger[j].timestamp
                   ELSE stakes[i].unstakeTime = NoTime

\* the list of a user with one stake, closed a day after it was made, while
\* the ledger also holds a stake of another user
C29_Witness ==
    /\ resp.op = "userStakes" /\ resp.status = "ok"
    /\ Len(resp.args.stakes) = 1
    /\ resp.args.stakes[1].isUnstaked
    /\ resp.args.stakes[1].unstakeTime = resp.args.stakes[1].timestamp + MsPerDay
    /\ \E j \in 1..Len(ledger) :
        ledger[j].type = "stake" /\ ledger[j].userId # resp.args.userId

\* the list of a user with two open stakes
C29_WitnessOpen ==
    /\ resp.op = "userStakes" /\ resp.status = "ok"
    /\ Len(resp.args.stakes) = 2
    /\ \A i \in 1..2 : ~resp.args.stakes[i].isUnstaked

\* C30: the pool's existence is the first rule applied: an unstake request
\* that has found its stake, and whose stake's pool is not stored, is
\* answered pool not found, also when the stake is already closed or still
\* locked; a stake request of a valid amount on a pool that is not stored is
\* answered pool not found.
C30_PoolExistenceFirst ==
    [][\A r \in Serial :
        /\ (/\ "stakeTransaction" \in DOMAIN req[r]
            /\ req[r].pc \in {"unstake_findUnstake", "unstake_findPool"}
            /\ req[r].stakeTransaction.poolId \notin DOMAIN pools
            /\ resp'.by = r)
                => resp'.status = "pool_not_found"
        /\ (/\ req[r].pc = "idle"
            /\ resp'.by = r /\ resp'.op = "stake"
            /\ resp'.args.poolId \notin DOMAIN pools
            /\ ~InvalidStakeAmount(resp'.args.amount))
                => resp'.status = "pool_not_found"
      ]_vars
====
